---- MODULE Spec2Model ----
(***************************************************************************)
(* Model of the OAuth token manager (oauth_manager.py) and of the gateway  *)
(* deployment script (deploy_gateway.py).                                   *)
(*                                                                         *)
(* SpecToken  : one OAuthTokenManager instance, a clock and a token         *)
(*              endpoint; get_token is called at arbitrary times.           *)
(* SpecDeploy : successive runs of deploy_gateway.main against one backend  *)
(*              that lists, deletes (asynchronously) and creates gateways.  *)
(***************************************************************************)
EXTENDS Integers, Sequences, FiniteSets, TLC

\* ---------------------------------------------------------------- bounds
T0 == 100
MaxTicks == 3
MaxPosts == 2
MaxRuns == 3

\* ------------------------------------------------------ program constants
Margin == 60
DefaultExpiresIn == 3600
GatewayName == "ansible-mcp-gateway"

\* self.token = None is modelled as token id 0; the endpoint's tokens are 1, 2, ...
NoToken == 0

\* seconds by which the clock moves between two calls
Ticks == {1, 59}
\* seconds a POST to the token endpoint takes (requests timeout is 10)
Latencies == {0, 1}
\* expires_in values the token endpoint answers with
ExpiresInValues == {30, 60, 61, 120}

VARIABLES
    \* ---- SpecToken
    now,               \* time.time()
    token,             \* OAuthTokenManager.token
    token_expires_at,  \* OAuthTokenManager.token_expires_at
    posts,             \* number of POSTs the token endpoint has received
    calls,             \* the last two completed get_token calls, oldest first
    fill,              \* the refresh that filled the cache: its clock reading and expires_in
    ticks,             \* number of clock steps taken between calls
    \* ---- SpecDeploy
    gateways,          \* backend: sequence of gateways in list order
    nextId,            \* backend: next gatewayId it assigns
    pc,                \* position of the running deploy_gateway.main
    oauth_token,       \* main's oauth_token
    existing_gateway,  \* main's existing_gateway (id 0 = None)
    gateway_id,        \* main's gateway_id (0 = not assigned)
    run,               \* what the current run has done so far
    prevRun,           \* the same record of the run before
    runs,              \* number of runs started
    \* ---- SpecConfig
    cfg,               \* one call of get_oauth_config: its sources and its result
    \* ---- SpecScripts
    providers,         \* backend: OAuth2 credential providers in list order
    targets,           \* backend: gateway targets in creation order
    mt,                \* the last run of create_mcp_target.py
    reg,               \* the last run of create_oauth_provider.py
    scriptRuns         \* number of script runs started

tokenVars == <<now, token, token_expires_at, posts, calls, fill, ticks>>
deployVars == <<gateways, nextId, pc, oauth_token, existing_gateway, gateway_id,
                run, prevRun, runs>>
scriptVars == <<cfg, providers, targets, mt, reg, scriptRuns>>
vars == <<now, token, token_expires_at, posts, calls, fill, ticks,
          gateways, nextId, pc, oauth_token, existing_gateway, gateway_id,
          run, prevRun, runs, cfg, providers, targets, mt, reg, scriptRuns>>

\* ------------------------------------------------------- token endpoint
\* A response of the token endpoint: unreachable, a non-2xx status, a 2xx body
\* without access_token, or a 2xx body with access_token and optional expires_in.
Responses ==
    {[kind |-> k, has_expires_in |-> FALSE, expires_in |-> 0] :
        k \in {"unreachable", "http_error", "no_access_token", "ok"}}
    \cup {[kind |-> "ok", has_expires_in |-> TRUE, expires_in |-> e] : e \in ExpiresInValues}

ExpiresInNoDefault(resp) == resp.expires_in
\* token_data.get("expires_in", 3600)
ExpiresIn(resp) == IF resp.has_expires_in THEN resp.expires_in ELSE DefaultExpiresIn

\* ------------------------------------------------------- OAuthTokenManager
NeedsRefreshNoBuffer(tok, exp, t) == tok = NoToken \/ t >= exp
NeedsRefreshStrict(tok, exp, t) == tok = NoToken \/ t > exp - Margin
NeedsRefreshAlways(tok, exp, t) == TRUE
\* get_token's test: not self.token or current_time >= self.token_expires_at - 60
NeedsRefresh(tok, exp, t) == tok = NoToken \/ t >= exp - Margin

RefreshTokenClearsCache(tok, exp, resp, access_token, t1) ==
    CASE resp.kind \in {"unreachable", "http_error"} ->
            [token |-> NoToken, token_expires_at |-> 0, raised |-> "RuntimeError"]
      [] resp.kind = "no_access_token" ->
            [token |-> tok, token_expires_at |-> exp, raised |-> "KeyError"]
      [] OTHER ->
            [token |-> access_token, token_expires_at |-> t1 + ExpiresIn(resp),
             raised |-> "none"]
\* _refresh_token: the cache after the POST was answered with resp at clock
\* reading t1, and the exception that leaves the function
RefreshToken(tok, exp, resp, access_token, t1) ==
    CASE resp.kind \in {"unreachable", "http_error"} ->
            \* requests.RequestException -> RuntimeError
            [token |-> tok, token_expires_at |-> exp, raised |-> "RuntimeError"]
      [] resp.kind = "no_access_token" ->
            \* token_data["access_token"] raises KeyError, which is not caught
            [token |-> tok, token_expires_at |-> exp, raised |-> "KeyError"]
      [] OTHER ->
            [token |-> access_token, token_expires_at |-> t1 + ExpiresIn(resp),
             raised |-> "none"]

\* get_token called at clock reading t0; if it refreshes, the POST is answered
\* with resp and _refresh_token reads the clock at t1
GetTokenResult(tok, exp, resp, access_token, t0, t1) ==
    IF NeedsRefresh(tok, exp, t0)
    THEN LET r == RefreshToken(tok, exp, resp, access_token, t1)
         IN  [token |-> r.token, token_expires_at |-> r.token_expires_at,
              raised |-> r.raised, posted |-> 1,
              ret |-> IF r.raised = "none" THEN r.token ELSE NoToken]
    ELSE [token |-> tok, token_expires_at |-> exp, raised |-> "none", posted |-> 0,
          ret |-> tok]

NoFill == [at |-> 0, expires_in |-> 0, posts |-> 0]

\* keep the last two call records
Remember(log, c) == IF Len(log) < 2 THEN Append(log, c) ELSE <<log[2], c>>

\* One call of get_token on the instance.
GetToken(resp, lat) ==
    LET t0 == now
        t1 == now + lat
        refresh == NeedsRefresh(token, token_expires_at, t0)
        r == GetTokenResult(token, token_expires_at, resp, posts + 1, t0, t1)
    IN  /\ refresh => posts < MaxPosts
        /\ ~refresh => (lat = 0 /\ resp.kind = "unreachable")  \* no POST: inputs unused
        /\ token' = r.token
        /\ token_expires_at' = r.token_expires_at
        /\ posts' = posts + r.posted
        /\ now' = IF refresh THEN t1 ELSE t0
        /\ fill' = IF refresh /\ r.raised = "none"
                   THEN [at |-> t1, expires_in |-> ExpiresIn(resp), posts |-> posts + 1]
                   ELSE fill
        /\ calls' = Remember(calls,
                        [t0 |-> t0, treturn |-> IF refresh THEN t1 ELSE t0,
                         pre_token |-> token, pre_expires_at |-> token_expires_at,
                         pre_fill |-> fill,
                         posted |-> r.posted, raised |-> r.raised, ret |-> r.ret,
                         kind |-> IF refresh THEN resp.kind ELSE "none",
                         resp |-> resp,
                         access_token |-> IF refresh THEN posts + 1 ELSE NoToken,
                         expires_in |-> IF refresh /\ r.raised = "none"
                                        THEN ExpiresIn(resp) ELSE 0,
                         post_token |-> r.token,
                         post_expires_at |-> r.token_expires_at])
        /\ UNCHANGED <<ticks, gateways, nextId, pc, oauth_token, existing_gateway,
                       gateway_id, run, prevRun, runs>>
        /\ UNCHANGED scriptVars

CallGetToken == \E resp \in Responses, lat \in Latencies : GetToken(resp, lat)

\* time passes between two calls
Tick ==
    /\ ticks < MaxTicks
    /\ ticks' = ticks + 1
    /\ \E d \in Ticks : now' = now + d
    /\ UNCHANGED <<token, token_expires_at, posts, calls, fill>>
    /\ UNCHANGED deployVars
    /\ UNCHANGED scriptVars

\* ------------------------------------------------------- get_oauth_config
\* the four fields in the order get_oauth_config resolves them
Fields == <<"client_id", "client_secret", "issuer_url", "audience">>
FieldSet == {Fields[i] : i \in 1..Len(Fields)}

\* the environment variable of a field
EnvVarName(f) ==
    CASE f = "client_id" -> "ANSIBLE_MCP_CLIENT_ID"
      [] f = "client_secret" -> "ANSIBLE_MCP_CLIENT_SECRET"
      [] f = "issuer_url" -> "ANSIBLE_MCP_ISSUER_URL"
      [] OTHER -> "ANSIBLE_MCP_AUDIENCE"

\* os.getenv of a field: None ("unset"), '' ("empty") or a value ("env")
Environments == [FieldSet -> {"unset", "empty", "env"}]
\* the parameter store: whether boto3.client('ssm') and its calls work at all,
\* and which of the /infragenie/oauth/* parameters exist
Stores == [clientOk : BOOLEAN, has : [FieldSet -> BOOLEAN]]

IsNone(v) == v = "unset"
\* python's `not value` on a field: None and '' are both missing
IsUnset(v) == v \in {"unset", "empty"}

\* missing_vars: the variables of the fields that are still missing, in order
MissingVars(values) ==
    LET sel == SelectSeq(Fields, LAMBDA f : IsUnset(values[f]))
    IN  [i \in 1..Len(sel) |-> EnvVarName(sel[i])]

\* the get_parameter calls from field i on: each missing field is asked for in
\* turn, and the first parameter the store lacks raises
RECURSIVE FetchFrom(_, _, _, _)
FetchFrom(i, values, consulted, store) ==
    IF i > Len(Fields) THEN [values |-> values, consulted |-> consulted, raised |-> FALSE]
    ELSE LET f == Fields[i]
         IN  IF IsUnset(values[f])
             THEN IF store.has[f]
                  THEN FetchFrom(i + 1, [values EXCEPT ![f] = "ssm"],
                                 Append(consulted, f), store)
                  ELSE [values |-> values, consulted |-> Append(consulted, f),
                        raised |-> TRUE]
             ELSE FetchFrom(i + 1, values, consulted, store)

\* get_oauth_config: where each field's value came from, the parameters asked
\* of the store, and whether ValueError was raised (with its missing_vars)
GetOAuthConfig(env, store) ==
    IF \A f \in FieldSet : ~IsUnset(env[f])
    THEN [values |-> env, consulted |-> << >>, raised |-> FALSE, missing_vars |-> << >>]
    ELSE LET r == IF store.clientOk
                  THEN FetchFrom(1, env, << >>, store)
                  ELSE [values |-> env, consulted |-> << >>, raised |-> TRUE]
         IN  [values |-> r.values, consulted |-> r.consulted, raised |-> r.raised,
              missing_vars |-> IF r.raised THEN MissingVars(r.values) ELSE << >>]

NoConfigResult == [values |-> [f \in FieldSet |-> "unset"], consulted |-> << >>,
                   raised |-> FALSE, missing_vars |-> << >>]
NoCfg == [env |-> [f \in FieldSet |-> "unset"],
          store |-> [clientOk |-> FALSE, has |-> [f \in FieldSet |-> FALSE]],
          called |-> FALSE, result |-> NoConfigResult]

\* ------------------------------------------------------- scripts at rest
NoArn == 0
\* a create_mcp_target.py run that has not happened
NoMt == [gateway |-> 0, listing |-> << >>, get |-> "", listCalled |-> FALSE, list |-> "",
         arn |-> NoArn, createCalled |-> FALSE, create |-> "", statusCalled |-> FALSE,
         status |-> "", created |-> 0, success |-> FALSE, exit |-> -1]
\* a create_oauth_provider.py run that has not happened
NoReg == [configOk |-> FALSE, createCalled |-> FALSE, create |-> "", arn |-> NoArn,
          exit |-> -1]

ScriptsIdle ==
    /\ cfg = NoCfg /\ providers = << >> /\ targets = << >>
    /\ mt = NoMt /\ reg = NoReg /\ scriptRuns = 0

\* ------------------------------------------------------- deploy_gateway.py
\* existing_gateway = None, and the descriptor of a gateway
NoGateway == [id |-> 0, name |-> "", status |-> ""]
\* a run of main that has not reached anything yet
NoRun == [listOk |-> FALSE, listed |-> << >>, prompted |-> FALSE, answer |-> "",
          log |-> << >>, used |-> 0, attempt |-> [id |-> 0, status |-> "", issued |-> FALSE],
          tokenFailed |-> FALSE, exit |-> -1]

\* the SpecToken behaviours leave the deployment untouched
DeployIdle ==
    /\ gateways = << >> /\ nextId = 1 /\ pc = "idle" /\ oauth_token = NoToken
    /\ existing_gateway = NoGateway /\ gateway_id = 0 /\ run = NoRun /\ prevRun = NoRun
    /\ runs = 0
    /\ ScriptsIdle

\* OAuthTokenManager.__init__
InitToken ==
    /\ now = T0
    /\ token = NoToken
    /\ token_expires_at = 0
    /\ posts = 0
    /\ calls = << >>
    /\ fill = NoFill
    /\ ticks = 0
    /\ DeployIdle

NextToken == CallGetToken \/ Tick

SpecToken == InitToken /\ [][NextToken]_vars

\* ------------------------------------------------------------------------
\* deploy_gateway.py: the backend and the steps of main

\* gateways the backend may hold before the first run
OtherName == "other-gateway"
InitialBackends ==
    { << >>,
      << [id |-> 1, name |-> GatewayName, status |-> "READY"] >>,
      << [id |-> 1, name |-> GatewayName, status |-> "FAILED"] >>,
      << [id |-> 1, name |-> OtherName, status |-> "READY"] >>,
      << [id |-> 1, name |-> OtherName, status |-> "READY"],
         [id |-> 2, name |-> GatewayName, status |-> "READY"] >> }

\* what the user may type at the prompt
Answers == {"y", "Y", "n", ""}

\* str.lower on the answers
Lower(s) == CASE s = "Y" -> "y" [] s = "N" -> "n" [] OTHER -> s

\* deploy_gateway.py imports subprocess, sys, json and create_oauth_token_manager;
\* `os`, which create_gateway_target reads first, is not among them
OsImportedToo == TRUE
OsImported == FALSE

FindAnyGateway(items) == IF items = << >> THEN NoGateway ELSE Head(items)
\* the loop of check_existing_gateway: the first item named ansible-mcp-gateway
RECURSIVE FindGateway(_)
FindGateway(items) ==
    IF items = << >> THEN NoGateway
    ELSE IF Head(items).name = GatewayName THEN Head(items)
    ELSE FindGateway(Tail(items))

\* check_existing_gateway: the gateway found, given how the list command ended
CheckExistingGateway(outcome, items) ==
    IF outcome = "success" THEN FindGateway(items) ELSE NoGateway

RecreateUnlessNo(response) == Lower(response) # "n"
\* main: response.lower() == 'y'
RecreateRequested(response) == Lower(response) = "y"

PcAfterPromptNoDelete(response) ==
    IF RecreateRequested(response) THEN "create" ELSE "reuse_target"
\* main: the branch taken after the prompt
PcAfterPrompt(response) ==
    IF RecreateRequested(response) THEN "delete" ELSE "reuse_target"

\* the status the backend holds for a gateway id ("" if it holds none)
StatusOf(gws, id) ==
    IF \E i \in 1..Len(gws) : gws[i].id = id
    THEN gws[CHOOSE i \in 1..Len(gws) : gws[i].id = id].status
    ELSE ""

\* a call observed by the backend (or a sleep of main); arg is the outcome of a
\* delete, the --name of a create, the gateway's status at a create-target
Event(op, id, arg) == [op |-> op, id |-> id, arg |-> arg]

Logged(r, e) == [r EXCEPT !.log = Append(@, e)]
Exited(r, code) == [r EXCEPT !.exit = code]

tokenIdle == <<now, token, token_expires_at, posts, calls, fill, ticks>>

\* python deploy_gateway.py is started
StartRun ==
    /\ pc \in {"idle", "done"}
    /\ runs < MaxRuns
    /\ runs' = runs + 1
    /\ prevRun' = run
    /\ run' = NoRun
    /\ pc' = "token"
    /\ oauth_token' = NoToken
    /\ existing_gateway' = NoGateway
    /\ gateway_id' = 0
    /\ UNCHANGED <<gateways, nextId>>
    /\ UNCHANGED <<tokenIdle, scriptVars>>

TokenAcquiredAnyway(configOk, raised) == TRUE
\* main: the statements after get_token() run only if neither
\* create_oauth_token_manager() nor get_token() raised
TokenAcquired(configOk, raised) == configOk /\ raised = "none"

\* main: create_oauth_token_manager() and get_token() on the new instance
AcquireToken ==
    /\ pc = "token"
    /\ \E configOk \in BOOLEAN, resp \in Responses :
        LET r == GetTokenResult(NoToken, 0, resp, 1, T0, T0)
            failed == ~configOk \/ r.raised # "none"
        IN  IF TokenAcquired(configOk, r.raised)
            THEN /\ oauth_token' = r.ret
                 /\ pc' = "list"
                 /\ run' = [run EXCEPT !.tokenFailed = failed]
            ELSE \* ValueError, RuntimeError or KeyError reach except Exception
                 /\ oauth_token' = NoToken
                 /\ pc' = "done"
                 /\ run' = Exited([run EXCEPT !.tokenFailed = failed], 1)
    /\ UNCHANGED <<gateways, nextId, existing_gateway, gateway_id, prevRun, runs>>
    /\ UNCHANGED <<tokenIdle, scriptVars>>

\* main: existing_gateway = check_existing_gateway()
CheckExisting ==
    /\ pc = "list"
    /\ \E outcome \in {"success", "not_success", "error"} :
        LET found == CheckExistingGateway(outcome, gateways)
        IN  /\ existing_gateway' = found
            /\ run' = Logged([run EXCEPT !.listOk = (outcome = "success"),
                                         !.listed = IF outcome = "success"
                                                    THEN gateways ELSE << >>],
                             Event("list", 0, ""))
            /\ pc' = IF found # NoGateway THEN "prompt" ELSE "create"
    /\ UNCHANGED <<gateways, nextId, oauth_token, gateway_id, prevRun, runs>>
    /\ UNCHANGED <<tokenIdle, scriptVars>>

\* main: the prompt and the branch on its answer
Prompt ==
    /\ pc = "prompt"
    /\ \E response \in Answers :
        /\ pc' = PcAfterPrompt(response)
        /\ run' = [run EXCEPT !.prompted = TRUE, !.answer = response,
                              !.used = IF pc' = "reuse_target"
                                       THEN existing_gateway.id ELSE @]
        /\ gateway_id' = IF pc' = "reuse_target" THEN existing_gateway.id ELSE gateway_id
    /\ UNCHANGED <<gateways, nextId, oauth_token, existing_gateway, prevRun, runs>>
    /\ UNCHANGED <<tokenIdle, scriptVars>>

\* the backend starts deleting the gateway; it stays listed until it is gone
MarkDeleting(gws, id) ==
    [i \in 1..Len(gws) |-> IF gws[i].id = id
                           THEN [gws[i] EXCEPT !.status = "DELETING"] ELSE gws[i]]

\* main: delete_gateway(existing_gateway['gatewayId'])
DeleteGateway ==
    /\ pc = "delete"
    /\ \E outcome \in {"ok", "error"} :
        /\ outcome = "ok" => StatusOf(gateways, existing_gateway.id) # ""
        /\ IF outcome = "ok"
           THEN /\ gateways' = MarkDeleting(gateways, existing_gateway.id)
                /\ pc' = "settle"
                /\ run' = Logged(run, Event("delete", existing_gateway.id, "ok"))
           ELSE /\ gateways' = gateways
                /\ pc' = "done"
                /\ run' = Exited(Logged(run, Event("delete", existing_gateway.id, "error")), 1)
    /\ UNCHANGED <<nextId, oauth_token, existing_gateway, gateway_id, prevRun, runs>>
    /\ UNCHANGED <<tokenIdle, scriptVars>>

\* main: time.sleep(5) after the delete
Settle ==
    /\ pc = "settle"
    /\ pc' = "create"
    /\ run' = Logged(run, Event("settle", 0, ""))
    /\ UNCHANGED <<gateways, nextId, oauth_token, existing_gateway, gateway_id, prevRun, runs>>
    /\ UNCHANGED <<tokenIdle, scriptVars>>

\* main: gateway_result = create_gateway() and gateway_id = its gatewayId
CreateGateway ==
    /\ pc = "create"
    /\ \E outcome \in {"success", "FAILED", "error"} :
        CASE outcome = "success" ->
                /\ gateways' = Append(gateways, [id |-> nextId, name |-> GatewayName,
                                                  status |-> "CREATING"])
                /\ nextId' = nextId + 1
                /\ gateway_id' = nextId
                /\ run' = [Logged(run, Event("create", nextId, GatewayName))
                               EXCEPT !.used = nextId]
                /\ pc' = "wait"
          [] outcome = "FAILED" ->
                \* the answer's status is not "success": create_gateway returns None
                /\ gateways' = Append(gateways, [id |-> nextId, name |-> GatewayName,
                                                  status |-> "FAILED"])
                /\ nextId' = nextId + 1
                /\ gateway_id' = gateway_id
                /\ run' = Exited(Logged(run, Event("create", 0, GatewayName)), 1)
                /\ pc' = "done"
          [] OTHER ->
                /\ gateways' = gateways
                /\ nextId' = nextId
                /\ gateway_id' = gateway_id
                /\ run' = Exited(Logged(run, Event("create", 0, GatewayName)), 1)
                /\ pc' = "done"
    /\ UNCHANGED <<oauth_token, existing_gateway, prevRun, runs>>
    /\ UNCHANGED <<tokenIdle, scriptVars>>

\* main: time.sleep(10) after the create
WaitReady ==
    /\ pc = "wait"
    /\ pc' = "target"
    /\ run' = Logged(run, Event("wait", 0, ""))
    /\ UNCHANGED <<gateways, nextId, oauth_token, existing_gateway, gateway_id, prevRun, runs>>
    /\ UNCHANGED <<tokenIdle, scriptVars>>

\* create_gateway_target(gateway_id, oauth_token) as main sees it: "NameError"
\* when os.getenv is reached without os, else how the command ended
CreateGatewayTarget(outcome) == IF OsImported THEN outcome ELSE "NameError"

\* main: create_gateway_target on the new gateway (exit 1 unless it succeeds)
\* or on the reused one (its result is ignored, then return)
CreateTarget ==
    /\ pc \in {"target", "reuse_target"}
    /\ \E outcome \in {"success", "error"} :
        LET res == CreateGatewayTarget(outcome)
            status == IF pc = "reuse_target" THEN existing_gateway.status
                      ELSE StatusOf(gateways, gateway_id)
            att == [id |-> gateway_id, status |-> status, issued |-> (res # "NameError")]
            r1 == [run EXCEPT !.attempt = att]
            r2 == IF res # "NameError" THEN Logged(r1, Event("target", gateway_id, status))
                  ELSE r1
            code == IF res = "NameError" THEN 1
                    ELSE IF pc = "reuse_target" THEN 0
                    ELSE IF res = "success" THEN 0 ELSE 1
        IN  /\ (res = "NameError") => outcome = "error"   \* no command ran
            /\ run' = Exited(r2, code)
            /\ pc' = "done"
            /\ targets' = IF res = "success"
                          THEN Append(targets, [gateway |-> gateway_id,
                                                name |-> "ansible-mcp-target"])
                          ELSE targets
    /\ UNCHANGED <<gateways, nextId, oauth_token, existing_gateway, gateway_id, prevRun, runs>>
    /\ UNCHANGED <<tokenIdle, cfg, providers, mt, reg, scriptRuns>>

RemoveAt(sq, i) == [j \in 1..(Len(sq) - 1) |-> IF j < i THEN sq[j] ELSE sq[j + 1]]

\* backend: an asynchronous deletion completes
BackendFinishDelete ==
    /\ \E i \in 1..Len(gateways) :
        /\ gateways[i].status = "DELETING"
        /\ gateways' = RemoveAt(gateways, i)
    /\ UNCHANGED <<nextId, pc, oauth_token, existing_gateway, gateway_id, run, prevRun, runs>>
    /\ UNCHANGED <<tokenIdle, scriptVars>>

\* backend: an asynchronous creation ends in READY or FAILED
BackendProvision ==
    /\ \E i \in 1..Len(gateways), st \in {"READY", "FAILED"} :
        /\ gateways[i].status = "CREATING"
        /\ gateways' = [gateways EXCEPT ![i].status = st]
    /\ UNCHANGED <<nextId, pc, oauth_token, existing_gateway, gateway_id, run, prevRun, runs>>
    /\ UNCHANGED <<tokenIdle, scriptVars>>

InitDeploy ==
    /\ gateways \in InitialBackends
    /\ nextId = Len(gateways) + 1
    /\ pc = "idle"
    /\ oauth_token = NoToken
    /\ existing_gateway = NoGateway
    /\ gateway_id = 0
    /\ run = NoRun
    /\ prevRun = NoRun
    /\ runs = 0
    /\ now = T0 /\ token = NoToken /\ token_expires_at = 0 /\ posts = 0
    /\ calls = << >> /\ fill = NoFill /\ ticks = 0
    /\ ScriptsIdle

NextDeploy ==
    \/ StartRun
    \/ AcquireToken
    \/ CheckExisting
    \/ Prompt
    \/ DeleteGateway
    \/ Settle
    \/ CreateGateway
    \/ WaitReady
    \/ CreateTarget
    \/ BackendFinishDelete
    \/ BackendProvision

SpecDeploy == InitDeploy /\ [][NextDeploy]_vars

\* ------------------------------------------------------------------------
\* get_oauth_config called once, for every environment and parameter store

\* everything but cfg is at rest: the token manager and the deployment
RestIdle ==
    /\ now = T0 /\ token = NoToken /\ token_expires_at = 0 /\ posts = 0
    /\ calls = << >> /\ fill = NoFill /\ ticks = 0
    /\ gateways = << >> /\ nextId = 1 /\ pc = "idle" /\ oauth_token = NoToken
    /\ existing_gateway = NoGateway /\ gateway_id = 0 /\ run = NoRun /\ prevRun = NoRun
    /\ runs = 0

InitConfig ==
    /\ cfg \in {[env |-> e, store |-> st, called |-> FALSE, result |-> NoConfigResult] :
                    e \in Environments, st \in Stores}
    /\ providers = << >> /\ targets = << >> /\ mt = NoMt /\ reg = NoReg /\ scriptRuns = 0
    /\ RestIdle

\* client_id, client_secret, issuer_url, audience = get_oauth_config()
CallGetOAuthConfig ==
    /\ ~cfg.called
    /\ cfg' = [cfg EXCEPT !.called = TRUE, !.result = GetOAuthConfig(cfg.env, cfg.store)]
    /\ UNCHANGED <<providers, targets, mt, reg, scriptRuns>>
    /\ UNCHANGED <<tokenIdle, deployVars>>

NextConfig == CallGetOAuthConfig

SpecConfig == InitConfig /\ [][NextConfig]_vars

\* ------------------------------------------------------------------------
\* create_oauth_provider.py and create_mcp_target.py run against one backend

MaxScriptRuns == 3

ProviderName == "ansible-mcp-auth0-custom-provider"
TargetName == "ansible-mcp-target-no-scopes"
\* values of GATEWAY_ID the target script is run with
GatewayIds == {1, 2}

\* credential providers the backend may hold before the first run
InitialProviders ==
    { << >>,
      << [name |-> "other-provider", arn |-> 1] >>,
      << [name |-> "other-provider", arn |-> 1], [name |-> ProviderName, arn |-> 2] >> }

\* environments and parameter stores the registration script is run with
ConfigCases ==
    { [env |-> [f \in FieldSet |-> "env"],
       store |-> [clientOk |-> FALSE, has |-> [f \in FieldSet |-> FALSE]]],
      [env |-> [f \in FieldSet |-> "unset"],
       store |-> [clientOk |-> TRUE, has |-> [f \in FieldSet |-> TRUE]]],
      [env |-> [f \in FieldSet |-> "unset"],
       store |-> [clientOk |-> FALSE, has |-> [f \in FieldSet |-> FALSE]]] }

HasProvider(items) == \E i \in 1..Len(items) : items[i].name = ProviderName

FindFirstProviderArn(items) == IF items = << >> THEN NoArn ELSE Head(items).arn
\* the loop over oauth2CredentialProviders: the ARN of the first provider named
\* ansible-mcp-auth0-custom-provider
RECURSIVE FindProviderArn(_)
FindProviderArn(items) ==
    IF items = << >> THEN NoArn
    ELSE IF Head(items).name = ProviderName THEN Head(items).arn
    ELSE FindProviderArn(Tail(items))

\* find_oauth_provider_arn: get-by-name answers "found", "not_found"
\* (ResourceNotFoundException) or "error" (any other exception); only the last
\* reaches the list fallback, which answers "ok" or "error"
FindOAuthProviderArn(getOutcome, listOutcome, items) ==
    CASE getOutcome = "found" ->
            [arn |-> FindProviderArn(items), listCalled |-> FALSE, list |-> ""]
      [] getOutcome = "not_found" ->
            [arn |-> NoArn, listCalled |-> FALSE, list |-> ""]
      [] OTHER ->
            [arn |-> IF listOutcome = "ok" THEN FindProviderArn(items) ELSE NoArn,
             listCalled |-> TRUE, list |-> listOutcome]

AnyArn(arn) == TRUE
\* create_mcp_target: `if not provider_arn: return False` lets only an ARN pass
HasArn(arn) == arn # NoArn

\* create_mcp_target for gateway gw: the calls it makes and what it returns
CreateMcpTarget(gw, getOutcome, listOutcome, createOutcome, statusOutcome, items) ==
    LET f == FindOAuthProviderArn(getOutcome, listOutcome, items)
        base == [gateway |-> gw, listing |-> items, get |-> getOutcome,
                 listCalled |-> f.listCalled, list |-> f.list, arn |-> f.arn,
                 createCalled |-> FALSE, create |-> "", statusCalled |-> FALSE,
                 status |-> "", created |-> 0, success |-> FALSE, exit |-> -1]
    IN  IF ~HasArn(f.arn) THEN base
        ELSE IF createOutcome # "ok"
        THEN \* create_gateway_target raised
             [base EXCEPT !.createCalled = TRUE, !.create = createOutcome]
        ELSE IF statusOutcome = "error"
        THEN \* get_gateway_target raised after the target was created
             [base EXCEPT !.createCalled = TRUE, !.create = createOutcome, !.created = 1,
                          !.statusCalled = TRUE, !.status = statusOutcome]
        ELSE [base EXCEPT !.createCalled = TRUE, !.create = createOutcome, !.created = 1,
                          !.statusCalled = TRUE, !.status = statusOutcome,
                          !.success = TRUE]

\* create_mcp_target.main: sys.exit(1) unless create_mcp_target returned True
TargetExit(success) == IF success THEN 0 ELSE 1

\* python create_mcp_target.py
RunCreateMcpTarget ==
    /\ scriptRuns < MaxScriptRuns
    /\ scriptRuns' = scriptRuns + 1
    /\ \E gw \in GatewayIds,
          getOutcome \in {"found", "not_found", "error"},
          listOutcome \in {"ok", "error"},
          createOutcome \in {"ok", "error"},
          statusOutcome \in {"READY", "CREATING", "error"} :
        LET r == CreateMcpTarget(gw, getOutcome, listOutcome, createOutcome,
                                 statusOutcome, providers)
        IN  /\ getOutcome = "found" => HasProvider(providers)
            /\ getOutcome = "not_found" => ~HasProvider(providers)
            \* outcomes of calls that are not made are not inputs
            /\ ~r.listCalled => listOutcome = "ok"
            /\ ~r.createCalled => createOutcome = "ok"
            /\ ~r.statusCalled => statusOutcome = "READY"
            /\ mt' = [r EXCEPT !.exit = TargetExit(r.success)]
            /\ targets' = IF r.created = 1
                          THEN Append(targets, [gateway |-> gw, name |-> TargetName])
                          ELSE targets
    /\ UNCHANGED <<cfg, providers, reg>>
    /\ UNCHANGED <<tokenIdle, deployVars>>

\* create_oauth_provider.main: it prints the outcome and returns either way
ProviderExit(provider_arn) == 0

\* python create_oauth_provider.py
RunCreateOAuthProvider ==
    /\ scriptRuns < MaxScriptRuns
    /\ scriptRuns' = scriptRuns + 1
    /\ \E c \in ConfigCases, createOutcome \in {"ok", "error"} :
        LET configOk == ~GetOAuthConfig(c.env, c.store).raised
            newArn == Len(providers) + 1
            arn == IF configOk /\ createOutcome = "ok" THEN newArn ELSE NoArn
        IN  \* the backend rejects a second provider of the same name
            /\ (createOutcome = "ok") => (configOk /\ ~HasProvider(providers))
            /\ providers' = IF arn # NoArn
                            THEN Append(providers, [name |-> ProviderName, arn |-> arn])
                            ELSE providers
            /\ reg' = [configOk |-> configOk, createCalled |-> configOk,
                       create |-> IF configOk THEN createOutcome ELSE "",
                       arn |-> arn, exit |-> ProviderExit(arn)]
    /\ UNCHANGED <<cfg, targets, mt>>
    /\ UNCHANGED <<tokenIdle, deployVars>>

InitScripts ==
    /\ providers \in InitialProviders
    /\ targets = << >>
    /\ mt = NoMt
    /\ reg = NoReg
    /\ scriptRuns = 0
    /\ cfg = NoCfg
    /\ RestIdle

NextScripts == RunCreateMcpTarget \/ RunCreateOAuthProvider

SpecScripts == InitScripts /\ [][NextScripts]_vars

\* ------------------------------------------------------------------------
\* Properties of the token manager (checked under SpecToken)

\* the recorded get_token calls
CallSet == {calls[i] : i \in 1..Len(calls)}
\* a call that found a cached token inside its valid window
InWindow(c) == c.pre_token # NoToken /\ c.t0 < c.pre_expires_at - 60
\* a call that returned a token
Returned(c) == c.raised = "none"

\* C1 (as stated): whenever get_token returns a token, for any expires_in the
\* endpoint answered with, the recorded token_expires_at is at least 60 seconds
\* later than the time of return.
C1_MarginAnyExpiresIn ==
    \A c \in CallSet : Returned(c) => c.post_expires_at >= c.treturn + 60

\* C1 (amended): whenever get_token returns a token, the recorded
\* token_expires_at is more than 60 seconds later than the clock reading of the
\* call if the token came from the cache, and equals the clock reading of the
\* refresh plus the response's expires_in if the call refreshed; so it is at
\* least 60 seconds later whenever that expires_in is 60 or more.
C1_MarginInvariant ==
    \A c \in CallSet : Returned(c) =>
        /\ c.posted = 0 => c.post_expires_at > c.treturn + 60
        /\ c.posted = 1 => c.post_expires_at = c.treturn + c.expires_in
        /\ (c.posted = 1 /\ c.expires_in >= 60) => c.post_expires_at >= c.treturn + 60

\* a token obtained with expires_in 120 is returned from the cache 59 seconds later
C1_Witness ==
    /\ Len(calls) = 2
    /\ calls[1].posted = 1 /\ Returned(calls[1]) /\ calls[1].expires_in = 120
    /\ calls[2].posted = 0 /\ Returned(calls[2]) /\ calls[2].t0 = calls[1].treturn + 59

\* C2: two successive get_token calls made while the cached token is inside its
\* valid window issue no POST, so the only POST is the one that filled the
\* cache, and both return the same token; a call that fills the cache followed
\* by a call inside the window makes one POST in total.
C2_CacheHit ==
    Len(calls) = 2 =>
        /\ (InWindow(calls[1]) /\ InWindow(calls[2])) =>
                /\ calls[1].posted = 0 /\ calls[2].posted = 0
                /\ posts = fill.posts
                /\ Returned(calls[1]) /\ Returned(calls[2])
                /\ calls[1].ret = calls[2].ret /\ calls[2].ret # NoToken
                /\ calls[2].post_token = calls[1].pre_token
                /\ calls[2].post_expires_at = calls[1].pre_expires_at
        /\ (calls[1].posted = 1 /\ Returned(calls[1]) /\ InWindow(calls[2])) =>
                /\ calls[1].posted + calls[2].posted = 1
                /\ posts = fill.posts
                /\ Returned(calls[2]) /\ calls[2].ret = calls[1].ret

\* two cache hits in a row, one second apart
C2_Witness ==
    /\ Len(calls) = 2
    /\ InWindow(calls[1]) /\ InWindow(calls[2])
    /\ calls[2].t0 > calls[1].t0
    /\ posts = 1

\* C3: a refresh that finds the endpoint unreachable or answering non-2xx
\* raises instead of returning the cached token, and leaves token and
\* token_expires_at as they were.
C3_FailedRefresh ==
    \A c \in CallSet :
        (c.posted = 1 /\ c.kind \in {"unreachable", "http_error"}) =>
            /\ c.raised = "RuntimeError"
            /\ c.ret = NoToken
            /\ c.post_token = c.pre_token
            /\ c.post_expires_at = c.pre_expires_at

\* a stale token is cached and the endpoint answers HTTP 500
C3_Witness ==
    \E c \in CallSet :
        /\ c.pre_token # NoToken /\ c.posted = 1 /\ c.kind = "http_error"
        /\ c.raised = "RuntimeError" /\ token = c.pre_token

\* C4: get_token fails with the one token-acquisition error (the RuntimeError
\* of _refresh_token) when the endpoint is unreachable, answers non-2xx, or
\* answers 2xx without access_token, and returns nothing in these cases.
C4_SingleErrorKind ==
    \A c \in CallSet :
        (c.posted = 1 /\ c.kind \in {"unreachable", "http_error", "no_access_token"}) =>
            /\ c.raised = "RuntimeError"
            /\ c.ret = NoToken

\* C5: with a cached token, get_token POSTs iff now >= token_expires_at - 60;
\* for a token obtained with expires_in 120, a call 59 seconds later does not
\* POST and a call 61 seconds later POSTs once.
C5_RefreshThreshold ==
    \A c \in CallSet : c.pre_token # NoToken =>
        /\ c.posted = 1 <=> c.t0 >= c.pre_expires_at - 60
        /\ c.posted \in {0, 1}
        /\ (c.pre_fill.expires_in = 120 /\ c.t0 = c.pre_fill.at + 59) => c.posted = 0
        /\ (c.pre_fill.expires_in = 120 /\ c.t0 = c.pre_fill.at + 61) => c.posted = 1

\* expires_in 120: a call at 59 seconds without POST, then one at 61 seconds with POST
C5_Witness ==
    /\ Len(calls) = 2
    /\ calls[1].pre_fill.expires_in = 120 /\ calls[1].t0 = calls[1].pre_fill.at + 59
    /\ calls[1].posted = 0
    /\ calls[2].pre_fill = calls[1].pre_fill /\ calls[2].t0 = calls[2].pre_fill.at + 61
    /\ calls[2].posted = 1

\* a call that refreshed the cache successfully
Refreshed(c) == c.posted = 1 /\ c.kind = "ok"
\* the lifetime the response of a call asks for: its expires_in, else 3600
Lifetime(c) == IF c.resp.has_expires_in THEN c.resp.expires_in ELSE 3600

\* C16 (as stated): after a successful refresh the cache holds the response's
\* access_token and token_expires_at = now + expires_in (3600 if the response
\* has none), now being the time get_token computed before the refresh.
C16_ExpiryFromCallTime ==
    \A c \in CallSet : Refreshed(c) =>
        /\ c.post_token = c.access_token
        /\ c.post_expires_at = c.t0 + Lifetime(c)

\* C16 (amended): after a successful refresh the cache holds the response's
\* access_token and token_expires_at = t + expires_in (3600 if the response has
\* none), t being the clock reading _refresh_token takes after the response
\* has arrived, which is not earlier than the time get_token computed.
C16_ExpiryComputation ==
    \A c \in CallSet : Refreshed(c) =>
        /\ c.post_token = c.access_token
        /\ c.ret = c.access_token
        /\ c.post_expires_at = c.treturn + Lifetime(c)
        /\ c.treturn >= c.t0

\* a refresh that took a second and got no expires_in: expiry is 3600 s after
\* the later clock reading
C16_Witness ==
    \E c \in CallSet :
        /\ Refreshed(c) /\ ~c.resp.has_expires_in
        /\ c.treturn = c.t0 + 1
        /\ c.post_expires_at = c.t0 + 3601
        /\ token_expires_at = c.post_expires_at

\* ------------------------------------------------------------------------
\* Properties of the deploy flow (checked under SpecDeploy)

\* the current run and the one before
RunSet == {run, prevRun}
\* positions of the calls of one kind in a run's log
Ops(r, op) == {i \in 1..Len(r.log) : r.log[i].op = op}
\* positions in a list answer of the gateways named ansible-mcp-gateway
NamedIdx(items) == {i \in 1..Len(items) : items[i].name = "ansible-mcp-gateway"}
\* the gatewayId of the first of them in list order
FirstNamedId(items) ==
    items[CHOOSE i \in NamedIdx(items) : \A j \in NamedIdx(items) : i <= j].id
ListedIds(items) == {items[i].id : i \in 1..Len(items)}
\* the run was asked the question and did not ask for recreation
Reused(r) == r.prompted /\ r.answer \notin {"y", "Y"}
\* the run was asked the question and asked for recreation
Recreated(r) == r.prompted /\ r.answer \in {"y", "Y"}

\* C6: a run that finds a gateway named ansible-mcp-gateway and is not asked to
\* recreate it issues no create-gateway and no delete-gateway call and uses the
\* gatewayId the list found; two such runs in a row that were given the same list
\* use the same gatewayId.
C6_Reuse ==
    /\ \A r \in RunSet : Reused(r) =>
            /\ Ops(r, "create") = {}
            /\ Ops(r, "delete") = {}
            /\ NamedIdx(r.listed) # {}
            /\ r.used = FirstNamedId(r.listed)
            /\ r.attempt.id \in {0, r.used}
    /\ (Reused(run) /\ Reused(prevRun) /\ run.listed = prevRun.listed) =>
            run.used = prevRun.used

\* two finished runs in a row reused the same gateway
C6_Witness ==
    /\ Reused(run) /\ Reused(prevRun)
    /\ run.exit >= 0 /\ prevRun.exit >= 0
    /\ run.used = prevRun.used /\ run.used # 0
    /\ run.attempt.id = run.used

\* C7: a finished run whose list succeeded and held no gateway named
\* ansible-mcp-gateway issued exactly one create-gateway call, with that name,
\* and no delete call.
C7_CreateIfAbsent ==
    \A r \in RunSet : (r.listOk /\ NamedIdx(r.listed) = {}) =>
        /\ Cardinality(Ops(r, "create")) <= 1
        /\ Ops(r, "delete") = {}
        /\ \A i \in Ops(r, "create") : r.log[i].arg = "ansible-mcp-gateway"
        /\ r.exit >= 0 => Cardinality(Ops(r, "create")) = 1

\* a finished run listed only another gateway and created one
C7_Witness ==
    /\ run.exit >= 0 /\ run.listOk
    /\ run.listed # << >> /\ NamedIdx(run.listed) = {}
    /\ Cardinality(Ops(run, "create")) = 1
    /\ run.used # 0

\* C8: in a run asked to recreate, the backend sees the delete of the existing
\* gatewayId, then the settle wait, then at most one create-gateway (exactly one
\* once the run has finished after a successful delete); no create comes before
\* the delete has returned, and the gatewayId used afterwards is the one the
\* create returned, different from the deleted one.
C8_RecreationOrdering ==
    \A r \in RunSet : Recreated(r) =>
        /\ Ops(r, "delete") \subseteq {2}
        /\ \A i \in Ops(r, "delete") : r.log[i].id = FirstNamedId(r.listed)
        /\ Cardinality(Ops(r, "create")) <= 1
        /\ \A i \in Ops(r, "create") :
                /\ i = 4
                /\ r.log[2] = [op |-> "delete", id |-> FirstNamedId(r.listed), arg |-> "ok"]
                /\ r.log[3].op = "settle"
                /\ r.log[i].id # 0 =>
                        /\ r.used = r.log[i].id
                        /\ r.used # r.log[2].id
                        /\ r.used \notin ListedIds(r.listed)
                        /\ r.attempt.id \in {0, r.used}
                /\ r.log[i].id = 0 => r.attempt.id = 0
        /\ (r.exit >= 0 /\ Ops(r, "delete") # {} /\ r.log[2].arg = "ok") =>
                Cardinality(Ops(r, "create")) = 1

\* a recreating run deleted, waited, created and went on with the new gatewayId
C8_Witness ==
    /\ Recreated(run)
    /\ Len(run.log) >= 4
    /\ run.log[2].op = "delete" /\ run.log[3].op = "settle" /\ run.log[4].op = "create"
    /\ run.log[4].id # 0
    /\ run.attempt.id = run.log[4].id
    /\ run.attempt.id # run.log[2].id

C10_NameUniqueness ==
    /\ Cardinality(NamedIdx(gateways)) <= 1
    /\ \A r \in RunSet : Ops(r, "create") # {} =>
            (r.listOk /\ NamedIdx(r.listed) = {})

\* ------------------------------------------------------------------------
\* Properties of get_oauth_config (checked under SpecConfig)

\* fields without a value in the returned tuple / at the time of the error
StillMissing(values) == {f \in FieldSet : values[f] \notin {"env", "ssm"}}
\* the names a configuration error has to give for a set of fields
NamesOf(fs) ==
    {n \in {"ANSIBLE_MCP_CLIENT_ID", "ANSIBLE_MCP_CLIENT_SECRET",
            "ANSIBLE_MCP_ISSUER_URL", "ANSIBLE_MCP_AUDIENCE"} :
        \/ (n = "ANSIBLE_MCP_CLIENT_ID" /\ "client_id" \in fs)
        \/ (n = "ANSIBLE_MCP_CLIENT_SECRET" /\ "client_secret" \in fs)
        \/ (n = "ANSIBLE_MCP_ISSUER_URL" /\ "issuer_url" \in fs)
        \/ (n = "ANSIBLE_MCP_AUDIENCE" /\ "audience" \in fs)}

\* C14: every field set in the environment keeps its environment value; the
\* parameter store is asked only when some field is unset, and only for unset
\* fields; when the store cannot supply one of them a configuration error is
\* raised that names exactly the fields still missing; a returned tuple has no
\* missing field.
C14_CredentialResolution ==
    cfg.called =>
        LET r == cfg.result
            unsetEnv == {f \in FieldSet : cfg.env[f] # "env"}
            asked == {r.consulted[i] : i \in 1..Len(r.consulted)}
        IN  /\ \A f \in FieldSet : cfg.env[f] = "env" => r.values[f] = "env"
            /\ asked \subseteq unsetEnv
            /\ unsetEnv = {} => (r.consulted = << >> /\ ~r.raised)
            /\ r.raised <=> \E f \in unsetEnv : ~cfg.store.clientOk \/ ~cfg.store.has[f]
            /\ r.raised =>
                    /\ StillMissing(r.values) # {}
                    /\ {r.missing_vars[i] : i \in 1..Len(r.missing_vars)}
                            = NamesOf(StillMissing(r.values))
                    /\ Len(r.missing_vars) = Cardinality(StillMissing(r.values))
            /\ ~r.raised =>
                    /\ StillMissing(r.values) = {}
                    /\ asked = unsetEnv
                    /\ \A f \in unsetEnv : r.values[f] = "ssm"

\* one field from the environment, one fetched from the store, and the store
\* lacking a later one: the error names the fields from there on
C14_Witness ==
    /\ cfg.called /\ cfg.result.raised
    /\ cfg.result.values["client_id"] = "env"
    /\ cfg.result.values["client_secret"] = "ssm"
    /\ cfg.env["issuer_url"] = "empty"
    /\ cfg.result.missing_vars = <<"ANSIBLE_MCP_ISSUER_URL", "ANSIBLE_MCP_AUDIENCE">>

\* ------------------------------------------------------------------------
\* Properties of the target and provider scripts (checked under SpecScripts)

\* the provider list of the backend holds the provider the target script needs
Listed(items) ==
    \E i \in 1..Len(items) : items[i].name = "ansible-mcp-auth0-custom-provider"
\* its ARN (the first of that name in list order)
ListedArn(items) ==
    LET idx == {i \in 1..Len(items) : items[i].name = "ansible-mcp-auth0-custom-provider"}
    IN  items[CHOOSE i \in idx : \A j \in idx : i <= j].arn
\* a create_mcp_target.py run has finished
TargetRan == mt.exit >= 0

\* C11: each gateway owns at most one target.
C11_OneTargetPerGateway ==
    \A g \in {targets[i].gateway : i \in 1..Len(targets)} :
        Cardinality({i \in 1..Len(targets) : targets[i].gateway = g}) <= 1

\* C12: when the provider is in neither get-by-name nor the provider list,
\* create_mcp_target reports failure without calling create_gateway_target or
\* get_gateway_target.
C12_FailFast ==
    (TargetRan /\ ~Listed(mt.listing)) =>
        /\ ~mt.success
        /\ mt.exit = 1
        /\ ~mt.createCalled
        /\ ~mt.statusCalled
        /\ mt.created = 0

\* the direct lookup failed, the list was scanned without a match, the run failed
C12_Witness ==
    /\ TargetRan /\ ~Listed(mt.listing)
    /\ mt.listing # << >>
    /\ mt.get = "error" /\ mt.listCalled /\ mt.list = "ok"
    /\ mt.exit = 1 /\ targets = << >>

\* C13: a script run ends with exit code 0 only if all its steps succeeded and
\* with exit code 1 when the configuration is missing or a creation failed.
C13_ExitCodes ==
    /\ reg.exit >= 0 => (reg.exit = 0 <=> reg.arn # 0) /\ reg.exit \in {0, 1}
    /\ mt.exit >= 0 => (mt.exit = 0 <=> mt.success) /\ mt.exit \in {0, 1}

\* C15 (as stated): whenever get-by-name fails, a not-found answer included,
\* the provider list is scanned and the ARN of the provider of that name is
\* returned if the list holds it; no ARN is returned only if the scan finds
\* none or the list fails.
C15_FallbackOnAnyFailure ==
    (TargetRan /\ mt.get \in {"not_found", "error"}) =>
        /\ mt.listCalled
        /\ (mt.list = "ok" /\ Listed(mt.listing)) => mt.arn = ListedArn(mt.listing)
        /\ mt.arn = 0 => (mt.list = "error" \/ ~Listed(mt.listing))

\* C15 (amended): when get-by-name fails with anything but a not-found answer
\* the provider list is scanned and the ARN of the provider of that name is
\* returned if the list holds it, no ARN only if the scan finds none or the
\* list fails; a not-found answer returns no ARN without the list being asked;
\* a successful get-by-name returns its ARN without the list being asked.
C15_LookupFallback ==
    TargetRan =>
        /\ mt.get = "error" =>
                /\ mt.listCalled
                /\ (mt.list = "ok" /\ Listed(mt.listing)) => mt.arn = ListedArn(mt.listing)
                /\ mt.arn = 0 <=> (mt.list = "error" \/ ~Listed(mt.listing))
        /\ mt.get = "not_found" => (~mt.listCalled /\ mt.arn = 0)
        /\ mt.get = "found" => (~mt.listCalled /\ mt.arn = ListedArn(mt.listing))

\* get-by-name failed and the list scan found the provider behind another one
C15_Witness ==
    /\ TargetRan
    /\ mt.get = "error" /\ mt.listCalled /\ mt.list = "ok"
    /\ Len(mt.listing) >= 2 /\ mt.listing[1].name # "ansible-mcp-auth0-custom-provider"
    /\ mt.arn = ListedArn(mt.listing) /\ mt.arn # 0

\* C19: whenever create_mcp_target returns False and the script exits 1, the
\* run has created no target on the backend.
C19_FailureMeansNothingCreated ==
    (TargetRan /\ ~mt.success) => (mt.exit = 1 /\ mt.created = 0)

\* ------------------------------------------------------------------------
\* Further properties of the deploy flow (checked under SpecDeploy)

\* every backend call the run made was answered successfully
AllAnswered(r) ==
    /\ ~r.tokenFailed
    /\ r.listOk
    /\ \A i \in Ops(r, "delete") : r.log[i].arg = "ok"
    /\ \A i \in Ops(r, "create") : r.log[i].id # 0
    /\ Reused(r) \/ Ops(r, "create") # {}

\* C17: a finished run whose token, list, create-gateway and
\* create-gateway-target calls were all answered successfully ended with exit
\* code 0 and issued create-gateway-target for the gateway it created or reused.
C17_ReachesEndState ==
    \A r \in RunSet : (r.exit >= 0 /\ AllAnswered(r)) =>
        /\ r.exit = 0
        /\ r.attempt.issued
        /\ r.attempt.id = r.used
        /\ \E i \in Ops(r, "target") : r.log[i].id = r.used

\* C18: the token is acquired before any gateway call; a run whose
\* configuration loading or token acquisition failed exits with code 1 and
\* has issued no list, delete, create-gateway or create-gateway-target call.
C18_TokenBeforeMutation ==
    /\ \A r \in RunSet : r.tokenFailed => (r.exit = 1 /\ r.log = << >> /\ ~r.attempt.issued)
    /\ (pc \notin {"idle", "token", "done"}) => (oauth_token # NoToken /\ ~run.tokenFailed)
    /\ \A r \in RunSet : r.log # << >> => ~r.tokenFailed
    /\ run.log # << >> => oauth_token # NoToken
    /\ pc = "token" => run.log = << >>

\* a run gave up at the token; the run before it had reached the backend
C18_Witness ==
    /\ run.tokenFailed /\ run.exit = 1 /\ run.log = << >>
    /\ prevRun.log # << >> /\ ~prevRun.tokenFailed
    /\ pc = "done"

====
